---- MODULE Spec2Model ----
(***************************************************************************)
(* The lecture processing pipeline of ai-lecturer: the upload route        *)
(* (routes/upload.js) driving file extraction (services/fileProcessor),    *)
(* script generation (services/aiService) and speech synthesis             *)
(* (services/ttsService) over one persisted Lecture document.              *)
(*                                                                         *)
(* Text is a sequence of one-character strings (a non-ASCII letter is      *)
(* written as its code point, "U+0417").  The state holds the              *)
(* names of texts (a page of the PDF, a completion of the language model); *)
(* the operators below compute on the characters those names stand for.    *)
(***************************************************************************)
EXTENDS Integers, Sequences, FiniteSets, TLC

(***************************************************************************)
(* Bounds of the model.                                                    *)
(***************************************************************************)
\* Largest number of text blocks (split on a blank line) in an uploaded PDF.
MaxBlocks == 2

\* Largest length of the text a service function is called with on its own.
MaxTextLen == 4

(***************************************************************************)
(* Characters and strings.                                                 *)
(***************************************************************************)
Min(a, b) == IF a <= b THEN a ELSE b

Rep(c, n) == [i \in 1..n |-> c]

\* The characters JavaScript's \s matches, among those the model uses.
IsSpace(c) == c \in {" ", "\n", "\t"}

IsQuote(c) == c \in {"\"", "'"}

\* String.prototype.toLowerCase on the letters the refusal patterns use.
toLowerCase(c) ==
    CASE c = "I" -> "i"
      [] c = "A" -> "a"
      [] OTHER -> c

\* String.prototype.substring(from, to) with 0-based from, exclusive to.
substring(s, from, to) == SubSeq(s, from + 1, Min(to, Len(s)))

\* The index of the first character of s at or after k that \s does not
\* match, Len(s) + 1 when there is none.
RECURSIVE SkipSpace(_, _)
SkipSpace(s, k) ==
    IF k > Len(s) \/ ~IsSpace(s[k]) THEN k ELSE SkipSpace(s, k + 1)

\* The index of the last character of s at or before k that \s does not
\* match, 0 when there is none.
RECURSIVE SkipSpaceBack(_, _)
SkipSpaceBack(s, k) ==
    IF k < 1 \/ ~IsSpace(s[k]) THEN k ELSE SkipSpaceBack(s, k - 1)

\* String.prototype.trim.
trim(s) == SubSeq(s, SkipSpace(s, 1), SkipSpaceBack(s, Len(s)))

\* s.replace(/[cs]+/g, ' '): every maximal run of characters of cs becomes
\* one space.
ReplaceRuns(s, cs) ==
    LET mark == [i \in 1..Len(s) |->
                    IF s[i] \notin cs THEN s[i]
                    ELSE IF i > 1 /\ s[i - 1] \in cs THEN "" ELSE " "]
    IN  SelectSeq(mark, LAMBDA c : c # "")

\* s.replace(/^["']|["']$/g, ''): one quote at the start and one quote at the
\* end are removed; a quote that is both is removed once.
StripQuotes(s) ==
    LET n == Len(s)
        lead == n >= 1 /\ IsQuote(s[1])
        tail == n >= 2 /\ IsQuote(s[n])
    IN  SubSeq(s, IF lead THEN 2 ELSE 1, IF tail THEN n - 1 ELSE n)

\* /^prefix/i.test(s)
StartsWithIgnoreCase(s, prefix) ==
    /\ Len(s) >= Len(prefix)
    /\ \A i \in 1..Len(prefix) : toLowerCase(s[i]) = toLowerCase(prefix[i])

(***************************************************************************)
(* services/aiService.js                                                   *)
(***************************************************************************)
\* The languages a request names in the model.
Languages == {"english", "french"}

languageGreetings ==
    [english |->
        <<"H","e","l","l","o"," ","e","v","e","r","y","o","n","e",",">>,
     russian |->
        <<"U+0417","U+0434","U+0440","U+0430","U+0432","U+0441","U+0442","U+0432",
          "U+0443","U+0439","U+0442","U+0435",",">>,
     spanish |->
        <<"H","o","l","a"," ","a"," ","t","o","d","o","s",",">>,
     french |->
        <<"B","o","n","j","o","u","r"," ","U+00E0"," ","t","o","u","s",",">>,
     german |->
        <<"H","a","l","l","o"," ","z","u","s","a","m","m","e","n",",">>]

\* table[key] for a key the table does not define reads Object.prototype:
\* the members a request can name in the model, as a template literal
\* renders them.
ObjectPrototype ==
    [constructor |->
        <<"f","u","n","c","t","i","o","n"," ","O","b","j","e","c","t","(",")",
          " ","{"," ","[","n","a","t","i","v","e"," ","c","o","d","e","]"," ",
          "}">>,
     toString |->
        <<"f","u","n","c","t","i","o","n"," ","t","o","S","t","r","i","n","g",
          "(",")"," ","{"," ","[","n","a","t","i","v","e"," ","c","o","d","e",
          "]"," ","}">>]

FallbackIntro ==
        <<" ","t","o","d","a","y"," ","w","e"," ","w","i","l","l"," ","b","e"," ",
          "d","i","s","c","u","s","s","i","n","g"," ","t","h","e"," ","f","o","l",
          "l","o","w","i","n","g"," ","t","o","p","i","c",":"," ">>

FallbackOutro ==
        <<"."," ","T","h","i","s"," ","i","s"," ","a","n"," ","i","m","p","o","r",
          "t","a","n","t"," ","s","u","b","j","e","c","t"," ","t","h","a","t"," ",
          "w","e"," ","n","e","e","d"," ","t","o"," ","u","n","d","e","r","s","t",
          "a","n","d"," ","t","h","o","r","o","u","g","h","l","y","."," ","L","e",
          "t"," ","m","e"," ","e","x","p","l","a","i","n"," ","t","h","e"," ","k",
          "e","y"," ","p","o","i","n","t","s"," ","a","n","d"," ","p","r","o","v",
          "i","d","e"," ","s","o","m","e"," ","e","x","a","m","p","l","e","s"," ",
          "t","o"," ","h","e","l","p"," ","c","l","a","r","i","f","y"," ","t","h",
          "e"," ","c","o","n","c","e","p","t","s",".">>

MinScriptLength == 50

MaxScriptLength == 2000

FallbackExcerptLength == 200

cleanGeneratedContent(content) ==
    trim(ReplaceRuns(ReplaceRuns(StripQuotes(content), {"\n"}), {" ", "\n", "\t"}))

\* generateFallbackContent quoting the whole slide text.
generateFallbackContent_WholeText(slideContent, language) ==
    LET greeting == IF language \in DOMAIN languageGreetings
                    THEN languageGreetings[language]
                    ELSE IF language \in DOMAIN ObjectPrototype
                    THEN ObjectPrototype[language]
                    ELSE languageGreetings.english
    IN  greeting \o FallbackIntro \o slideContent \o FallbackOutro

generateFallbackContent(slideContent, language) ==
    LET greeting == IF language \in DOMAIN languageGreetings
                    THEN languageGreetings[language]
                    ELSE IF language \in DOMAIN ObjectPrototype
                    THEN ObjectPrototype[language]
                    ELSE languageGreetings.english
    IN  greeting \o FallbackIntro
          \o substring(slideContent, 0, FallbackExcerptLength) \o FallbackOutro

problematicPatterns ==
    {
        <<"I","'","m"," ","s","o","r","r","y">>,
        <<"I"," ","c","a","n","n","o","t">>,
        <<"I"," ","d","o","n","'","t"," ","h","a","v","e"," ","a","c","c","e","s",
          "s">>,
        <<"A","s"," ","a","n"," ","A","I">>}

validateGeneratedContent(content) ==
    /\ content # <<>>
    /\ Len(content) >= MinScriptLength
    /\ Len(content) <= MaxScriptLength
    /\ ~\E pattern \in problematicPatterns : StartsWithIgnoreCase(content, pattern)


\* The completions the language model returns in the model, by name.
Completions == {"lecture", "refusal", "blank"}

\* completion.choices[0].message.content of each completion.
completionText(c) ==
    CASE c = "lecture" ->
            <<"\"">> \o Rep("a", 30) \o <<"\n", "\n">> \o Rep("b", 30) \o <<"\"">>
      [] c = "refusal" ->
            <<"I","'","m"," ","s","o","r","r","y",","," ">> \o Rep("c", 60)
      [] c = "blank" -> <<"\n", " ", "\n">>

\* What openai.chat.completions.create does: it throws or returns one of
\* the completions.
LlmOutcomes == {"throw"} \cup Completions

\* generateLectureContent with the outcome of its provider call.
generateLectureContent(slideContent, language, outcome) ==
    IF outcome = "throw"
    THEN generateFallbackContent(slideContent, language)
    ELSE cleanGeneratedContent(completionText(outcome))

\* What slideContent.substring(0, 200) throws for a slideContent that is
\* undefined.
SubstringOfUndefined ==
    "TypeError: Cannot read properties of undefined (reading 'substring')"

\* generateLectureContent called without a slide text (slideContent is
\* undefined): the prompt is built and sent all the same; when the call
\* throws, the catch block calls generateFallbackContent(undefined,
\* language), whose slideContent.substring throws out of the catch block.
generateLectureContentOfUndefined(language, outcome) ==
    IF outcome = "throw"
    THEN [rejected |-> TRUE, error |-> SubstringOfUndefined, value |-> <<>>]
    ELSE [rejected |-> FALSE, error |-> "",
          value |-> cleanGeneratedContent(completionText(outcome))]

\* The loop of generateLectureContentBatch from its k-th slide (0-based) on:
\* the scripts pushed so far and what has been awaited so far, a
\* generateLectureContent call ("generation") for each slide and the
\* setTimeout of 1000 ms ("delay") after each slide but the last.
\* outcomes[k] is what the provider does for the k-th slide.
RECURSIVE contentBatchLoop(_, _, _, _, _, _)
contentBatchLoop(slides, language, outcomes, k, scripts, events) ==
    IF ~(k < Len(slides)) THEN [scripts |-> scripts, events |-> events]
    ELSE LET slide == slides[k + 1]
             script == generateLectureContent(slide.content, language,
                                              outcomes[k + 1])
         IN  contentBatchLoop(slides, language, outcomes, k + 1,
                Append(scripts, [slideNumber |-> k + 1,
                                 script |-> script,
                                 content |-> slide.content]),
                events \o <<[kind |-> "generation", slide |-> k + 1]>>
                       \o (IF k < Len(slides) - 1
                           THEN <<[kind |-> "delay", slide |-> k + 1]>>
                           ELSE <<>>))

\* generateLectureContentBatch giving each result its slide's own number.
generateLectureContentBatch_OwnNumbers(slides, language, outcomes) ==
    LET scripts == contentBatchLoop(slides, language, outcomes, 0, <<>>, <<>>).scripts
    IN  [k \in 1..Len(scripts) |->
            [scripts[k] EXCEPT !.slideNumber = slides[k].slideNumber]]

generateLectureContentBatch(slides, language, outcomes) ==
    contentBatchLoop(slides, language, outcomes, 0, <<>>, <<>>).scripts

(***************************************************************************)
(* services/fileProcessor.js                                               *)
(***************************************************************************)
\* The blocks of text a PDF holds in the model, by name.
PageNames == {"short", "long"}

MinPageLength == 10

ImageExcerptLength == 100

\* The characters of each block as data.text.split('\n\n') yields it.
pageText(p) ==
    CASE p = "short" -> <<" ">> \o Rep("x", 10) \o <<"\n">>
      [] p = "long" -> <<" ">> \o Rep("y", 205)

PptxContent ==
    <<"S","l","i","d","e"," ","c","o","n","t","e","n","t"," ","e","x","t","r",
      "a","c","t","e","d"," ","f","r","o","m"," ","P","P","T","X">>

\* A slide's content is named by the block it was cut from ("pptx" for the
\* placeholder slide of processPPTX); its characters are the trimmed block.
contentText(c) == IF c = "pptx" THEN PptxContent ELSE trim(pageText(c))

\* generateSlideImage: the URL of the uploaded image, or the placeholder
\* URL when rendering or the upload throws.  Both carry slideNumber.
generateSlideImage(content, slideNumber, rendered) ==
    [host |-> IF rendered THEN "s3" ELSE "placeholder", slideNumber |-> slideNumber]

\* The sequence s without the elements whose index is not in keep.
RECURSIVE Collect(_, _, _)
Collect(f, n, keep) ==
    IF n = 0 THEN <<>>
    ELSE IF n \in keep THEN Append(Collect(f, n - 1, keep), f[n])
    ELSE Collect(f, n - 1, keep)

\* An uploaded buffer: whether it parses as its declared format, and the
\* blocks of its text.
Pdfs ==
    UNION {[1..n -> PageNames] : n \in 0..MaxBlocks}

Buffers ==
    {[parses |-> FALSE, pages |-> <<>>]}
        \cup {[parses |-> TRUE, pages |-> ps] : ps \in Pdfs}

ProcessPdfError == "Failed to process PDF file"

\* processPDF giving up when an image cannot be rendered or stored.
processPDF_AbortsOnImage(buffer, rendered) ==
    IF ~buffer.parses \/ (~rendered /\ buffer.pages # <<>>)
    THEN [ok |-> FALSE, error |-> ProcessPdfError, slides |-> <<>>]
    ELSE
        LET pages == SelectSeq(buffer.pages,
                               LAMBDA page : Len(trim(pageText(page))) > 0)
            usable == {i \in 1..Len(pages) :
                          Len(trim(pageText(pages[i]))) > MinPageLength}
            slide == [i \in 1..Len(pages) |->
                        [content |-> pages[i],
                         imageUrl |-> generateSlideImage(
                            substring(trim(pageText(pages[i])), 0, ImageExcerptLength),
                            i, rendered)]]
        IN  [ok |-> TRUE, error |-> "", slides |-> Collect(slide, Len(pages), usable)]

\* processPDF: the slides, or the error it throws.
processPDF(buffer, rendered) ==
    IF ~buffer.parses THEN [ok |-> FALSE, error |-> ProcessPdfError, slides |-> <<>>]
    ELSE
        LET pages == SelectSeq(buffer.pages,
                               LAMBDA page : Len(trim(pageText(page))) > 0)
            usable == {i \in 1..Len(pages) :
                          Len(trim(pageText(pages[i]))) > MinPageLength}
            slide == [i \in 1..Len(pages) |->
                        [content |-> pages[i],
                         imageUrl |-> generateSlideImage(
                            substring(trim(pageText(pages[i])), 0, ImageExcerptLength),
                            i, rendered)]]
        IN  [ok |-> TRUE, error |-> "", slides |-> Collect(slide, Len(pages), usable)]

\* processPPTX: one placeholder slide whatever the buffer holds.
processPPTX(buffer, rendered) ==
    [ok |-> TRUE, error |-> "",
     slides |-> <<[content |-> "pptx",
                   imageUrl |-> generateSlideImage(<<"S","l","i","d","e"," ","1">>,
                                                   1, rendered)]>>]


(***************************************************************************)
(* services/ttsService.js                                                  *)
(***************************************************************************)
SpeechError == "Failed to generate speech"

AudioLocation == "https://s3/audio/audio.mp3"

\* What the synthesis call and the upload of its audio do.
SpeechOutcomes == {"ok", "providerThrows", "uploadThrows"}

LANGUAGE_VOICES ==
    [english |-> "alloy", russian |-> "echo", spanish |-> "onyx",
     french |-> "nova", german |-> "shimmer"]

\* The characters /\w/ matches.
WordChars ==
    {"a","b","c","d","e","f","g","h","i","j","k","l","m","n","o","p","q","r","s",
     "t","u","v","w","x","y","z","A","B","C","D","E","F","G","H","I","J","K","L",
     "M","N","O","P","Q","R","S","T","U","V","W","X","Y","Z","0","1","2","3","4",
     "5","6","7","8","9","_"}

\* The characters /[^\w\s.,!?-]/ does not match.
IsSpeakable(c) == c \in WordChars \/ IsSpace(c) \/ c \in {".", ",", "!", "?", "-"}

\* char.toLowerCase() on the Cyrillic letters of the model.
toLowerCaseCyrillic(c) == IF c = "U+0417" THEN "U+0437" ELSE c

\* s.replace(/U+00DF/g, 'ss'), halving s so that a text of thousands of
\* characters is replaced in few nested steps.
RECURSIVE ReplaceEszett(_)
ReplaceEszett(s) ==
    IF Len(s) = 0 THEN <<>>
    ELSE IF Len(s) = 1 THEN (IF s[1] = "U+00DF" THEN <<"s", "s">> ELSE s)
    ELSE LET half == Len(s) \div 2
         IN  ReplaceEszett(SubSeq(s, 1, half))
                \o ReplaceEszett(SubSeq(s, half + 1, Len(s)))

MaxSpeechLength == 4000

prepareTextForTTS(text, language) ==
    LET cleanedText == trim(SelectSeq(ReplaceRuns(text, {" ", "\n", "\t"}), IsSpeakable))
        prepared ==
            CASE language = "russian" ->
                    [k \in 1..Len(cleanedText) |-> toLowerCaseCyrillic(cleanedText[k])]
              [] language = "german" -> ReplaceEszett(cleanedText)
              [] OTHER -> cleanedText
    IN  IF Len(prepared) > MaxSpeechLength
        THEN substring(prepared, 0, MaxSpeechLength) \o <<".", ".", ".">>
        ELSE prepared

\* LANGUAGE_VOICES[language] || 'alloy': the voice of the table, the
\* member of Object.prototype of that name, or the default.
selectVoice(language) ==
    IF language \in DOMAIN LANGUAGE_VOICES THEN LANGUAGE_VOICES[language]
    ELSE IF language \in DOMAIN ObjectPrototype THEN "Object.prototype." \o language
    ELSE "alloy"

TextTooLong == "Text is too long for TTS (max 4000 characters)"

\* validateTTSParameters: the errors it collects, in the order of its
\* tests.  !LANGUAGE_VOICES[language] is false for a member of
\* Object.prototype.
validateTTSParameters(text, language) ==
    LET errors ==
            (IF Len(trim(text)) = 0 THEN <<"Text cannot be empty">> ELSE <<>>)
         \o (IF Len(text) > MaxSpeechLength THEN <<TextTooLong>> ELSE <<>>)
         \o (IF language \notin DOMAIN LANGUAGE_VOICES
                    /\ language \notin DOMAIN ObjectPrototype
             THEN <<"Unsupported language">> ELSE <<>>)
    IN  [isValid |-> errors = <<>>, errors |-> errors]

\* generateSpeech: the URL of the uploaded audio, or the error it throws.
\* openai.audio.speech.create is called with prepareTextForTTS(text,
\* language) and with voice; outcome is what that call and the upload do.
generateSpeech(text, language, outcome) ==
    IF outcome = "ok"
    THEN [ok |-> TRUE, audioUrl |-> AudioLocation, error |-> "",
          voice |-> selectVoice(language)]
    ELSE [ok |-> FALSE, audioUrl |-> "", error |-> SpeechError,
          voice |-> selectVoice(language)]

\* audioUrl: null
Null == "null"

\* speechBatchLoop ending at the first item whose generateSpeech throws.
RECURSIVE speechBatchLoop_Aborts(_, _, _, _, _)
speechBatchLoop_Aborts(texts, language, outcomes, k, results) ==
    IF ~(k < Len(texts)) THEN results
    ELSE LET text == texts[k + 1]
             out == generateSpeech(text.content, language, outcomes[k + 1])
         IN  IF out.ok
             THEN speechBatchLoop_Aborts(texts, language, outcomes, k + 1,
                    Append(results, [slideNumber |-> text.slideNumber,
                                     audioUrl |-> out.audioUrl,
                                     content |-> text.content]))
             ELSE Append(results, [slideNumber |-> text.slideNumber,
                                   audioUrl |-> Null,
                                   content |-> text.content,
                                   error |-> out.error])

\* The loop of generateSpeechBatch from its k-th item (0-based) on, with the
\* results pushed so far: a result with the audio URL, or, when
\* generateSpeech throws, one with audioUrl null and the error's message.
RECURSIVE speechBatchLoop(_, _, _, _, _)
speechBatchLoop(texts, language, outcomes, k, results) ==
    IF ~(k < Len(texts)) THEN results
    ELSE LET text == texts[k + 1]
             out == generateSpeech(text.content, language, outcomes[k + 1])
         IN  speechBatchLoop(texts, language, outcomes, k + 1,
                Append(results,
                    IF out.ok
                    THEN [slideNumber |-> text.slideNumber,
                          audioUrl |-> out.audioUrl,
                          content |-> text.content]
                    ELSE [slideNumber |-> text.slideNumber,
                          audioUrl |-> Null,
                          content |-> text.content,
                          error |-> out.error]))

\* What the loop of generateSpeechBatch does from its k-th item (0-based)
\* on, after events: each generateSpeech call is a "synthesis"; the
\* setTimeout of 2000 ms, awaited in the try block after the push when the
\* item is not the last, is a "delay".
RECURSIVE speechBatchEvents(_, _, _, _, _)
speechBatchEvents(texts, language, outcomes, k, events) ==
    IF ~(k < Len(texts)) THEN events
    ELSE LET out == generateSpeech(texts[k + 1].content, language, outcomes[k + 1])
         IN  speechBatchEvents(texts, language, outcomes, k + 1,
                events \o <<"synthesis">>
                       \o (IF out.ok /\ k < Len(texts) - 1 THEN <<"delay">> ELSE <<>>))

\* generateSpeechBatch leaving its loop at the first item that fails.
generateSpeechBatch_Aborts(texts, language, outcomes) ==
    speechBatchLoop_Aborts(texts, language, outcomes, 0, <<>>)

\* generateSpeechBatch: outcomes[k] is what the synthesis call and the
\* upload of the k-th item do.
generateSpeechBatch(texts, language, outcomes) ==
    speechBatchLoop(texts, language, outcomes, 0, <<>>)

(***************************************************************************)
(* models/Lecture.js                                                       *)
(***************************************************************************)
LectureIds == {"L1"}

Users == {"alice", "bob"}

\* The users who create a lecture in the model.
Owners == {"alice"}

languageEnum == {"english", "russian", "spanish", "french", "german"}

\* A script in the state is the generateLectureContent call that produced
\* it (slide content, language, what the provider did); NoScript is the
\* schema's default ''.
NoScript == [content |-> "", language |-> "", outcome |-> "none"]

scriptText(script) ==
    IF script.outcome = "none" THEN <<>>
    ELSE generateLectureContent(contentText(script.content), script.language,
                                script.outcome)

\* slideSchema: the defaults of the fields an update leaves out.
slideSchema(slide) ==
    [slideNumber |-> slide.slideNumber,
     imageUrl |-> slide.imageUrl,
     content |-> slide.content,
     aiScript |-> IF "aiScript" \in DOMAIN slide THEN slide.aiScript ELSE NoScript,
     audioUrl |-> IF "audioUrl" \in DOMAIN slide THEN slide.audioUrl ELSE "",
     duration |-> IF "duration" \in DOMAIN slide THEN slide.duration ELSE 0]

\* lectureSchema: a new document.
lectureSchema(owner, language) ==
    [owner |-> owner,
     language |-> language,
     fileType |-> "",
     fileUrl |-> "",
     slides |-> <<>>,
     status |-> "uploading",
     processingProgress |-> 0,
     totalDuration |-> 0,
     slideCount |-> 0,
     errorMessage |-> ""]

\* findByIdAndUpdate with the option upsert: a missing document is created
\* from the update and the schema's defaults.
findByIdAndUpdate_Upsert(store, id, update) ==
    LET old == IF id \in DOMAIN store THEN store[id] ELSE lectureSchema("", "english")
    IN  (id :> [f \in DOMAIN old |->
                    IF f \in DOMAIN update THEN update[f] ELSE old[f]]) @@ store

\* Lecture.findByIdAndUpdate(id, update): the fields of update replace the
\* document's; a missing document is not created.
findByIdAndUpdate(store, id, update) ==
    IF id \notin DOMAIN store THEN store
    ELSE [store EXCEPT ![id] =
            [f \in DOMAIN store[id] |->
                IF f \in DOMAIN update THEN update[f] ELSE store[id][f]]]

(***************************************************************************)
(* The state.                                                              *)
(***************************************************************************)
\* The requests POST /upload/lecture/:lectureId in flight.
Runs == {"r1", "r2"}

VARIABLES
    db,               \* the Lecture collection: id -> document
    pc,               \* where each request's handler is
    req,              \* its parameters: user, lectureId, fileType, language
    file,             \* the uploaded buffer, once the handler has read it
    slides,           \* the handler's slides
    processedSlides,  \* the handler's processedSlides
    i,                \* the handler's loop index
    aiScript,         \* the handler's aiScript of the slide in progress
    error,            \* the message of the error the handler caught
    res,              \* the status code of the response, 0 while there is none
    hist,             \* history: status and processingProgress of each update
                      \* a handler has applied
    bucket,           \* the objects of the S3 bucket
    call,             \* the request to routes/lectures.js or the delete route
                      \* of routes/upload.js in flight
    answer,           \* that route's last response
    input,            \* the arguments of a service function called on its own
    output            \* what it returned

vars == <<db, pc, req, file, slides, processedSlides, i, aiScript, error, res, hist,
          bucket, call, answer, input, output>>

\* The state of the upload handlers.
runVars == <<pc, req, file, slides, processedSlides, i, aiScript, error, res, hist>>

\* The state of the routes other than the upload.
apiVars == <<call, answer>>

\* The state of a service function called on its own.
textVars == <<input, output>>

\* An object of the bucket: the prefix of its key ("lectures", "slides" or
\* "audio") and the lecture whose upload stored it.
S3Object(prefix, id) == [prefix |-> prefix, lecture |-> id]

NoCall == [op |-> "", user |-> "", lectureId |-> "", body |-> <<>>, pc |-> ""]

NoAnswer == [op |-> "", lectureId |-> "", code |-> 0]

NoInput == [text |-> <<>>, language |-> ""]

NoOutput == [fn |-> "", outcome |-> "", value |-> <<>>]

NoReq == [user |-> "", lectureId |-> "", fileType |-> "", language |-> ""]

NoFile == [parses |-> FALSE, pages |-> <<>>]

\* No request is in flight and the bucket is empty.
Quiet ==
    /\ pc = [r \in Runs |-> "idle"]
    /\ req = [r \in Runs |-> NoReq]
    /\ file = [r \in Runs |-> NoFile]
    /\ slides = [r \in Runs |-> <<>>]
    /\ processedSlides = [r \in Runs |-> <<>>]
    /\ i = [r \in Runs |-> 0]
    /\ aiScript = [r \in Runs |-> NoScript]
    /\ error = [r \in Runs |-> ""]
    /\ res = [r \in Runs |-> 0]
    /\ hist = [r \in Runs |-> <<>>]
    /\ bucket = {}
    /\ call = NoCall
    /\ answer = NoAnswer

\* No service function has been called on its own.
NoServiceCall == input = NoInput /\ output = NoOutput

Init == db = <<>> /\ Quiet /\ NoServiceCall

\* The handler's locals are dead once it has responded.
Respond(r, code) ==
    /\ pc' = [pc EXCEPT ![r] = "done"]
    /\ res' = [res EXCEPT ![r] = code]
    /\ file' = [file EXCEPT ![r] = NoFile]
    /\ slides' = [slides EXCEPT ![r] = <<>>]
    /\ processedSlides' = [processedSlides EXCEPT ![r] = <<>>]
    /\ i' = [i EXCEPT ![r] = 0]
    /\ aiScript' = [aiScript EXCEPT ![r] = NoScript]

\* An update the handler of r applies to its lecture, and its record in hist.
\* The database answers every call: the model has no failing findById or
\* findByIdAndUpdate.
Update(r, update) ==
    /\ db' = findByIdAndUpdate(db, req[r].lectureId, update)
    /\ hist' = [hist EXCEPT ![r] = Append(@,
            [status |-> IF "status" \in DOMAIN update THEN update.status ELSE "",
             processingProgress |->
                IF "processingProgress" \in DOMAIN update
                THEN update.processingProgress ELSE -1])]

\* A throw inside the handler's try block.
Throw(r, message) ==
    /\ pc' = [pc EXCEPT ![r] = "catch"]
    /\ error' = [error EXCEPT ![r] = message]

(***************************************************************************)
(* routes/lectures.js                                                      *)
(***************************************************************************)
\* POST /lectures: lecture.save() validates language against the schema.
CreateLecture(id, user, language) ==
    /\ id \notin DOMAIN db
    /\ language \in languageEnum
    /\ db' = (id :> lectureSchema(user, language)) @@ db
    /\ UNCHANGED <<pc, req, file, slides, processedSlides, i, aiScript, error, res, hist>>
    /\ UNCHANGED <<bucket, apiVars, textVars>>


(***************************************************************************)
(* routes/upload.js: POST /upload/lecture/:lectureId.  Each action is the  *)
(* handler's code from one await to the next.                              *)
(***************************************************************************)
FileTypes == {"pptx", "pdf"}

UploadError == "S3 upload failed"

FileLocation == "https://s3/lectures/file"

\* The buffers a request of each type uploads: processPPTX never reads its
\* buffer, so only whether it would parse is told apart.
BuffersOf(fileType) ==
    IF fileType = "pdf" THEN Buffers
    ELSE {[parses |-> FALSE, pages |-> <<>>], [parses |-> TRUE, pages |-> <<>>]}

\* slideProgress as the percentage of the slides done: Math.round((k / n) * 100).
slideProgress_Percent(k, n) == (2 * (100 * k) + n) \div (2 * n)

\* slideProgress counting down from 40.
slideProgress_Decreasing(k, n) == (2 * (40 * n - 40 * k) + n) \div (2 * n)

\* Math.round(40 + ((k / n) * 40)), for the k-th of n slides.
slideProgress(k, n) == (2 * (40 * n + 40 * k) + n) \div (2 * n)

RECURSIVE sumDuration(_)
sumDuration(ss) ==
    IF ss = <<>> THEN 0 ELSE ss[1].duration + sumDuration(Tail(ss))

\* Lines 38-50: the request arrives; without a file it is answered 400.
Request(r, user, id, hasFile, fileType, language) ==
    /\ pc[r] = "idle"
    /\ IF hasFile
       THEN /\ pc' = [pc EXCEPT ![r] = "findById"]
            /\ req' = [req EXCEPT ![r] =
                    [user |-> user, lectureId |-> id, fileType |-> fileType,
                     language |-> language]]
            /\ UNCHANGED <<file, slides, processedSlides, i, aiScript, res>>
       ELSE /\ Respond(r, 400)
            /\ UNCHANGED req
    /\ UNCHANGED <<db, error, hist>>
    /\ UNCHANGED <<bucket, apiVars, textVars>>

\* Lines 50-65: the lecture is looked up and its owner checked.
FindLecture(r) ==
    /\ pc[r] = "findById"
    /\ IF req[r].lectureId \notin DOMAIN db
       THEN Respond(r, 404)
       ELSE IF db[req[r].lectureId].owner # req[r].user
       THEN Respond(r, 403)
       ELSE /\ pc' = [pc EXCEPT ![r] = "setProcessing"]
            /\ UNCHANGED <<file, slides, processedSlides, i, aiScript, res>>
    /\ UNCHANGED <<db, req, error, hist>>
    /\ UNCHANGED <<bucket, apiVars, textVars>>

DbError == "Operation lectures.findOne() buffering timed out"

\* Line 50 when the database does not answer: Lecture.findById rejects and
\* the catch block is entered before the lecture was read.
FindLectureThrows(r) ==
    /\ pc[r] = "findById"
    /\ Throw(r, DbError)
    /\ UNCHANGED <<db, req, file, slides, processedSlides, i, aiScript, res, hist>>
    /\ UNCHANGED <<bucket, apiVars, textVars>>

\* Lines 67-73.
SetProcessing(r) ==
    /\ pc[r] = "setProcessing"
    /\ Update(r, [fileType |-> req[r].fileType,
                  status |-> "processing",
                  processingProgress |-> 10])
    /\ pc' = [pc EXCEPT ![r] = "upload"]
    /\ UNCHANGED <<req, file, slides, processedSlides, i, aiScript, error, res>>
    /\ UNCHANGED <<bucket, apiVars, textVars>>

\* Lines 75-84: s3.upload of the source file.
UploadFile(r, stored) ==
    /\ pc[r] = "upload"
    /\ IF stored
       THEN pc' = [pc EXCEPT ![r] = "setFileUrl"] /\ UNCHANGED error
       ELSE Throw(r, UploadError)
    /\ bucket' = IF stored
                 THEN bucket \cup {S3Object("lectures", req[r].lectureId)}
                 ELSE bucket
    /\ UNCHANGED <<db, req, file, slides, processedSlides, i, aiScript, res, hist>>
    /\ UNCHANGED <<apiVars, textVars>>

\* Lines 86-90.
SetFileUrl(r) ==
    /\ pc[r] = "setFileUrl"
    /\ Update(r, [fileUrl |-> FileLocation, processingProgress |-> 20])
    /\ pc' = [pc EXCEPT ![r] = "process"]
    /\ UNCHANGED <<req, file, slides, processedSlides, i, aiScript, error, res>>
    /\ UNCHANGED <<bucket, apiVars, textVars>>

\* The objects generateSlideImage uploads while the file is processed: one
\* per slide when the rendering and the upload work (key slides/slide-N-...).
imagesStored(out, rendered, id) ==
    IF out.ok /\ rendered /\ out.slides # <<>>
    THEN {S3Object("slides", id)} ELSE {}

\* Lines 92-98: the buffer is read here for the first time, so the model
\* draws its bytes here.
ProcessFile(r, buffer, rendered) ==
    /\ pc[r] = "process"
    /\ buffer \in BuffersOf(req[r].fileType)
    /\ LET out == IF req[r].fileType = "pptx" THEN processPPTX(buffer, rendered)
                  ELSE processPDF(buffer, rendered)
       IN  /\ IF out.ok
              THEN /\ slides' = [slides EXCEPT ![r] = out.slides]
                   /\ pc' = [pc EXCEPT ![r] = "setSlides"]
                   /\ UNCHANGED error
              ELSE /\ Throw(r, out.error)
                   /\ UNCHANGED slides
           /\ bucket' = bucket \cup imagesStored(out, rendered, req[r].lectureId)
    /\ file' = [file EXCEPT ![r] = buffer]
    /\ UNCHANGED <<db, req, processedSlides, i, aiScript, res, hist>>
    /\ UNCHANGED <<apiVars, textVars>>

\* SetSlides writing the progress alone: the skeletons are not persisted.
SetSlides_ProgressOnly(r) ==
    /\ pc[r] = "setSlides"
    /\ Update(r, [processingProgress |-> 40])
    /\ i' = [i EXCEPT ![r] = 0]
    /\ processedSlides' = [processedSlides EXCEPT ![r] = <<>>]
    /\ pc' = [pc EXCEPT ![r] = IF 0 < Len(slides[r]) THEN "generate" ELSE "finalize"]
    /\ UNCHANGED <<req, file, slides, aiScript, error, res>>
    /\ UNCHANGED <<bucket, apiVars, textVars>>

\* SetSlides numbering each slide as its image is numbered, by the block's
\* position in the PDF.
SetSlides_NumberedAsImage(r) ==
    /\ pc[r] = "setSlides"
    /\ Update(r, [slides |-> [k \in 1..Len(slides[r]) |->
                                slideSchema([slideNumber |->
                                                slides[r][k].imageUrl.slideNumber,
                                             imageUrl |-> slides[r][k].imageUrl,
                                             content |-> slides[r][k].content])],
                  processingProgress |-> 40])
    /\ i' = [i EXCEPT ![r] = 0]
    /\ processedSlides' = [processedSlides EXCEPT ![r] = <<>>]
    /\ pc' = [pc EXCEPT ![r] = IF 0 < Len(slides[r]) THEN "generate" ELSE "finalize"]
    /\ UNCHANGED <<req, file, slides, aiScript, error, res>>
    /\ UNCHANGED <<bucket, apiVars, textVars>>

\* Lines 100-116.
SetSlides(r) ==
    /\ pc[r] = "setSlides"
    /\ Update(r, [slides |-> [k \in 1..Len(slides[r]) |->
                                slideSchema([slideNumber |-> k,
                                             imageUrl |-> slides[r][k].imageUrl,
                                             content |-> slides[r][k].content])],
                  processingProgress |-> 40])
    /\ i' = [i EXCEPT ![r] = 0]
    /\ processedSlides' = [processedSlides EXCEPT ![r] = <<>>]
    /\ pc' = [pc EXCEPT ![r] = IF 0 < Len(slides[r]) THEN "generate" ELSE "finalize"]
    /\ UNCHANGED <<req, file, slides, aiScript, error, res>>
    /\ UNCHANGED <<bucket, apiVars, textVars>>

\* Lines 117-124: generateLectureContent never throws.
GenerateScript(r, outcome) ==
    /\ pc[r] = "generate"
    /\ aiScript' = [aiScript EXCEPT ![r] =
            [content |-> slides[r][i[r] + 1].content,
             language |-> req[r].language,
             outcome |-> outcome]]
    /\ pc' = [pc EXCEPT ![r] = "speech"]
    /\ UNCHANGED <<db, req, file, slides, processedSlides, i, error, res, hist>>
    /\ UNCHANGED <<bucket, apiVars, textVars>>

\* GenerateSpeech that is not awaited: the loop goes on without its result.
GenerateSpeech_NotAwaited(r, outcome) ==
    /\ pc[r] = "speech"
    /\ pc' = [pc EXCEPT ![r] = "setProgress"]
    /\ bucket' = IF outcome = "ok"
                 THEN bucket \cup {S3Object("audio", req[r].lectureId)}
                 ELSE bucket
    /\ UNCHANGED <<db, req, file, slides, processedSlides, i, aiScript, error, res, hist>>
    /\ UNCHANGED <<apiVars, textVars>>

\* Lines 126-136.
GenerateSpeech(r, outcome) ==
    /\ pc[r] = "speech"
    /\ LET out == generateSpeech(scriptText(aiScript[r]), req[r].language, outcome)
           slide == slides[r][i[r] + 1]
       IN  IF out.ok
           THEN /\ processedSlides' = [processedSlides EXCEPT ![r] = Append(@,
                        [slideNumber |-> i[r] + 1,
                         imageUrl |-> slide.imageUrl,
                         content |-> slide.content,
                         aiScript |-> aiScript[r],
                         audioUrl |-> out.audioUrl,
                         duration |-> 0])]
                /\ pc' = [pc EXCEPT ![r] = "setProgress"]
                /\ UNCHANGED error
           ELSE /\ Throw(r, out.error)
                /\ UNCHANGED processedSlides
    /\ bucket' = IF outcome = "ok"
                 THEN bucket \cup {S3Object("audio", req[r].lectureId)}
                 ELSE bucket
    /\ UNCHANGED <<db, req, file, slides, i, aiScript, res, hist>>
    /\ UNCHANGED <<apiVars, textVars>>

\* Lines 138-143 and the loop test of line 116.
SetProgress(r) ==
    /\ pc[r] = "setProgress"
    /\ Update(r, [processingProgress |-> slideProgress(i[r] + 1, Len(slides[r]))])
    /\ i' = [i EXCEPT ![r] = @ + 1]
    /\ pc' = [pc EXCEPT ![r] =
            IF i[r] + 1 < Len(slides[r]) THEN "generate" ELSE "finalize"]
    /\ UNCHANGED <<req, file, slides, processedSlides, aiScript, error, res>>
    /\ UNCHANGED <<bucket, apiVars, textVars>>

\* Finalize whose response throws after the update, inside the try block.
Finalize_ResponseThrows(r) ==
    /\ pc[r] = "finalize"
    /\ Update(r, [slides |-> [k \in 1..Len(processedSlides[r]) |->
                                slideSchema(processedSlides[r][k])],
                  totalDuration |-> sumDuration(processedSlides[r]),
                  status |-> "ready",
                  processingProgress |-> 100,
                  slideCount |-> Len(processedSlides[r])])
    /\ Throw(r, "Converting circular structure to JSON")
    /\ UNCHANGED <<req, file, slides, processedSlides, i, aiScript, res>>
    /\ UNCHANGED <<bucket, apiVars, textVars>>

\* Finalize without processingProgress in its update.
Finalize_WithoutProgress(r) ==
    /\ pc[r] = "finalize"
    /\ Update(r, [slides |-> [k \in 1..Len(processedSlides[r]) |->
                                slideSchema(processedSlides[r][k])],
                  totalDuration |-> sumDuration(processedSlides[r]),
                  status |-> "ready",
                  slideCount |-> Len(processedSlides[r])])
    /\ Respond(r, 200)
    /\ UNCHANGED <<req, error>>
    /\ UNCHANGED <<bucket, apiVars, textVars>>

\* Finalize without the slides in its update.
Finalize_WithoutSlides(r) ==
    /\ pc[r] = "finalize"
    /\ Update(r, [totalDuration |-> sumDuration(processedSlides[r]),
                  status |-> "ready",
                  processingProgress |-> 100,
                  slideCount |-> Len(processedSlides[r])])
    /\ Respond(r, 200)
    /\ UNCHANGED <<req, error>>
    /\ UNCHANGED <<bucket, apiVars, textVars>>

\* Lines 145-161.
Finalize(r) ==
    /\ pc[r] = "finalize"
    /\ Update(r, [slides |-> [k \in 1..Len(processedSlides[r]) |->
                                slideSchema(processedSlides[r][k])],
                  totalDuration |-> sumDuration(processedSlides[r]),
                  status |-> "ready",
                  processingProgress |-> 100,
                  slideCount |-> Len(processedSlides[r])])
    /\ Respond(r, 200)
    /\ UNCHANGED <<req, error>>
    /\ UNCHANGED <<bucket, apiVars, textVars>>

\* HandleError answering without the update.
HandleError_RespondsOnly(r) ==
    /\ pc[r] = "catch"
    /\ Respond(r, 500)
    /\ UNCHANGED <<db, hist, req, error>>
    /\ UNCHANGED <<bucket, apiVars, textVars>>

\* HandleError resetting processingProgress.
HandleError_ResetsProgress(r) ==
    /\ pc[r] = "catch"
    /\ Update(r, [status |-> "error", errorMessage |-> error[r],
                  processingProgress |-> 0])
    /\ Respond(r, 500)
    /\ UNCHANGED <<req, error>>
    /\ UNCHANGED <<bucket, apiVars, textVars>>

\* Lines 163-178: the catch block.
HandleError(r) ==
    /\ pc[r] = "catch"
    /\ Update(r, [status |-> "error", errorMessage |-> error[r]])
    /\ Respond(r, 500)
    /\ UNCHANGED <<req, error>>
    /\ UNCHANGED <<bucket, apiVars, textVars>>

\* Uploads that arrive one after the other: "r2" is sent once "r1" has been
\* answered (a second upload to the same lecture).
Next ==
    \/ \E id \in LectureIds, user \in Owners, language \in Languages :
            CreateLecture(id, user, language)
    \/ \E r \in Runs, user \in Users, id \in LectureIds, hasFile \in BOOLEAN,
          fileType \in FileTypes, language \in Languages :
            /\ r = "r2" => pc["r1"] = "done"
            /\ Request(r, user, id, hasFile, fileType, language)
    \/ \E r \in Runs : FindLecture(r)
    \/ \E r \in Runs : SetProcessing(r)
    \/ \E r \in Runs, stored \in BOOLEAN : UploadFile(r, stored)
    \/ \E r \in Runs : SetFileUrl(r)
    \/ \E r \in Runs, buffer \in Buffers, rendered \in BOOLEAN :
            ProcessFile(r, buffer, rendered)
    \/ \E r \in Runs : SetSlides(r)
    \/ \E r \in Runs, outcome \in LlmOutcomes : GenerateScript(r, outcome)
    \/ \E r \in Runs, outcome \in SpeechOutcomes : GenerateSpeech(r, outcome)
    \/ \E r \in Runs : SetProgress(r)
    \/ \E r \in Runs : Finalize(r)
    \/ \E r \in Runs : HandleError(r)

Spec == Init /\ [][Next]_vars

\* A step of the handler of r after its request has arrived.  Every image
\* is rendered; the provider answers with the lecture or throws.
HandlerStep(r) ==
    \/ FindLecture(r)
    \/ SetProcessing(r)
    \/ \E stored \in BOOLEAN : UploadFile(r, stored)
    \/ SetFileUrl(r)
    \/ \E buffer \in Buffers : ProcessFile(r, buffer, TRUE)
    \/ SetSlides(r)
    \/ \E outcome \in {"throw", "lecture"} : GenerateScript(r, outcome)
    \/ \E outcome \in SpeechOutcomes : GenerateSpeech(r, outcome)
    \/ SetProgress(r)
    \/ Finalize(r)
    \/ HandleError(r)

\* Uploads one after the other, as in Next, all naming the language english.
NextLive ==
    \/ \E id \in LectureIds, user \in Owners : CreateLecture(id, user, "english")
    \/ \E r \in Runs, user \in Users, id \in LectureIds, hasFile \in BOOLEAN,
          fileType \in FileTypes :
            /\ r = "r2" => pc["r1"] = "done"
            /\ Request(r, user, id, hasFile, fileType, "english")
    \/ \E r \in Runs : HandlerStep(r)

\* Every call a handler awaits returns or throws, and the event loop then
\* runs the handler's continuation: a handler that can take a step takes
\* one.  Whether a client sends a request at all is left open.
SpecLive == Init /\ [][NextLive]_vars /\ \A r \in Runs : WF_vars(HandlerStep(r))

\* Uploads to the same lecture that overlap: "r2" is sent any time after
\* "r1".  Both come from the owner, with a file, and name the lecture's
\* language; the provider answers with the lecture or throws.
NextRace ==
    \/ \E id \in LectureIds, user \in Owners, language \in {"english"} :
            CreateLecture(id, user, language)
    \/ \E r \in Runs, user \in Owners, id \in LectureIds, fileType \in FileTypes :
            /\ r = "r2" => pc["r1"] # "idle"
            /\ Request(r, user, id, TRUE, fileType, "english")
    \/ \E r \in Runs : FindLecture(r)
    \/ \E r \in Runs : SetProcessing(r)
    \/ \E r \in Runs, stored \in BOOLEAN : UploadFile(r, stored)
    \/ \E r \in Runs : SetFileUrl(r)
    \/ \E r \in Runs, buffer \in Buffers : ProcessFile(r, buffer, TRUE)
    \/ \E r \in Runs : SetSlides(r)
    \/ \E r \in Runs, outcome \in {"throw", "lecture"} : GenerateScript(r, outcome)
    \/ \E r \in Runs, outcome \in {"ok", "providerThrows"} : GenerateSpeech(r, outcome)
    \/ \E r \in Runs : SetProgress(r)
    \/ \E r \in Runs : Finalize(r)
    \/ \E r \in Runs : HandleError(r)

SpecRace == Init /\ [][NextRace]_vars

(***************************************************************************)
(* routes/lectures.js (PUT /:id, PATCH /:id/status, PATCH /:id/slides,     *)
(* DELETE /:id) and DELETE /upload/lecture/:lectureId of routes/upload.js. *)
(* One such request is in flight at a time; each action is its handler's   *)
(* code from one await to the next.                                        *)
(***************************************************************************)
statusEnum == {"uploading", "processing", "generating", "ready", "error"}

Ops == {"putLecture", "patchStatus", "patchSlides", "deleteLecture", "deleteUpload"}

\* The body a client sends with each request in the model; "done" is no
\* status of the schema.
Bodies(op) ==
    CASE op = "putLecture" -> {[language |-> "french"]}
      [] op = "patchStatus" ->
            {[status |-> "uploading", processingProgress |-> 0], [status |-> "done"]}
      [] op = "patchSlides" -> {[slides |-> <<>>, totalDuration |-> 0]}
      [] OTHER -> {<<>>}

\* runValidators: true, for the fields the bodies set.
runValidators(update) ==
    /\ "status" \in DOMAIN update => update.status \in statusEnum
    /\ "processingProgress" \in DOMAIN update
            => update.processingProgress \in 0..100
    /\ "language" \in DOMAIN update => update.language \in languageEnum

\* Lecture.findByIdAndDelete(id).
findByIdAndDelete(store, id) == [x \in DOMAIN store \ {id} |-> store[x]]

\* res.status(code).json(...): the handler is over.
Answer(code) ==
    /\ call' = NoCall
    /\ answer' = [op |-> call.op, lectureId |-> call.lectureId, code |-> code]

\* A request arrives at one of the routes.
ApiRequest(op, user, id, body) ==
    /\ call = NoCall
    /\ body \in Bodies(op)
    /\ call' = [op |-> op, user |-> user, lectureId |-> id, body |-> body,
                pc |-> "findById"]
    /\ answer' = NoAnswer
    /\ UNCHANGED <<db, bucket, runVars, textVars>>

\* Lecture.findById and the two checks each of the routes makes: 404 when
\* there is no lecture, 403 when the requester is not its owner.
FindOwned(next) ==
    /\ call.pc = "findById"
    /\ IF call.lectureId \notin DOMAIN db THEN Answer(404)
       ELSE IF db[call.lectureId].owner # call.user THEN Answer(403)
       ELSE call' = [call EXCEPT !.pc = next] /\ UNCHANGED answer
    /\ UNCHANGED <<db, bucket, runVars, textVars>>

\* findByIdAndUpdate of the request's body, validated.
UpdateOwned ==
    /\ call.pc = "update"
    /\ IF runValidators(call.body)
       THEN db' = findByIdAndUpdate(db, call.lectureId, call.body) /\ Answer(200)
       ELSE UNCHANGED db /\ Answer(500)
    /\ UNCHANGED <<bucket, runVars, textVars>>

\* PUT /lectures/:id, lines 136-160: a lecture that is ready is not updated.
PutLectureFind ==
    /\ call.op = "putLecture"
    /\ call.pc = "findById"
    /\ IF call.lectureId \notin DOMAIN db THEN Answer(404)
       ELSE IF db[call.lectureId].owner # call.user THEN Answer(403)
       ELSE IF db[call.lectureId].status = "ready" THEN Answer(400)
       ELSE call' = [call EXCEPT !.pc = "update"] /\ UNCHANGED answer
    /\ UNCHANGED <<db, bucket, runVars, textVars>>

\* Lines 162-178.
PutLectureUpdate == call.op = "putLecture" /\ UpdateOwned

\* PATCH /lectures/:id/status, lines 189-208.
PatchStatusFind == call.op = "patchStatus" /\ FindOwned("update")

\* Lines 210-222.
PatchStatusUpdate == call.op = "patchStatus" /\ UpdateOwned

\* PATCH /lectures/:id/slides, lines 233-252.
PatchSlidesFind == call.op = "patchSlides" /\ FindOwned("update")

\* Lines 254-265.
PatchSlidesUpdate == call.op = "patchSlides" /\ UpdateOwned

\* DELETE /lectures/:id, lines 276-291.
DeleteLectureFind == call.op = "deleteLecture" /\ FindOwned("delete")

\* Lines 293-297: the document is deleted, nothing else.
DeleteLectureDelete ==
    /\ call.op = "deleteLecture"
    /\ call.pc = "delete"
    /\ db' = findByIdAndDelete(db, call.lectureId)
    /\ Answer(200)
    /\ UNCHANGED <<bucket, runVars, textVars>>

\* DELETE /upload/lecture/:lectureId, lines 214-232: s3.deleteObject is
\* called when the lecture has a fileUrl.
DeleteUploadFind ==
    /\ call.op = "deleteUpload"
    /\ call.pc = "findById"
    /\ IF call.lectureId \notin DOMAIN db THEN Answer(404)
       ELSE IF db[call.lectureId].owner # call.user THEN Answer(403)
       ELSE /\ call' = [call EXCEPT !.pc =
                    IF db[call.lectureId].fileUrl # "" THEN "deleteObject"
                    ELSE "delete"]
            /\ UNCHANGED answer
    /\ UNCHANGED <<db, bucket, runVars, textVars>>

\* Lines 233-238: the object under lectures/ that fileUrl names is deleted,
\* or s3.deleteObject throws and the catch block answers 500.
DeleteUploadObject(deleted) ==
    /\ call.op = "deleteUpload"
    /\ call.pc = "deleteObject"
    /\ IF deleted
       THEN /\ bucket' = bucket \ {S3Object("lectures", call.lectureId)}
            /\ call' = [call EXCEPT !.pc = "delete"]
            /\ UNCHANGED answer
       ELSE UNCHANGED bucket /\ Answer(500)
    /\ UNCHANGED <<db, runVars, textVars>>

\* Lines 240-246.
DeleteUploadDelete ==
    /\ call.op = "deleteUpload"
    /\ call.pc = "delete"
    /\ db' = findByIdAndDelete(db, call.lectureId)
    /\ Answer(200)
    /\ UNCHANGED <<bucket, runVars, textVars>>

\* One upload to a lecture that alice has created, and the other routes
\* called by alice or bob while it runs, before it or after it.
InitApi == db = [id \in LectureIds |-> lectureSchema("alice", "english")]
           /\ Quiet /\ NoServiceCall

NextApi ==
    \/ \E user \in Users, id \in LectureIds, fileType \in FileTypes :
            Request("r1", user, id, TRUE, fileType, "english")
    \/ FindLecture("r1")
    \/ SetProcessing("r1")
    \/ \E stored \in BOOLEAN : UploadFile("r1", stored)
    \/ SetFileUrl("r1")
    \/ \E buffer \in Buffers, rendered \in BOOLEAN : ProcessFile("r1", buffer, rendered)
    \/ SetSlides("r1")
    \/ \E outcome \in {"throw", "lecture"} : GenerateScript("r1", outcome)
    \/ \E outcome \in SpeechOutcomes : GenerateSpeech("r1", outcome)
    \/ SetProgress("r1")
    \/ Finalize("r1")
    \/ HandleError("r1")
    \/ \E op \in Ops, user \in Users, id \in LectureIds :
            \E body \in Bodies(op) : ApiRequest(op, user, id, body)
    \/ PutLectureFind
    \/ PutLectureUpdate
    \/ PatchStatusFind
    \/ PatchStatusUpdate
    \/ PatchSlidesFind
    \/ PatchSlidesUpdate
    \/ DeleteLectureFind
    \/ DeleteLectureDelete
    \/ DeleteUploadFind
    \/ \E deleted \in BOOLEAN : DeleteUploadObject(deleted)
    \/ DeleteUploadDelete

SpecApi == InitApi /\ [][NextApi]_vars

\* Uploads one after the other to a lecture that alice has created, sent by
\* alice or bob, with a database whose findById can fail: the read of line
\* 50 rejects, and the update of the catch block that follows is applied.
NextOutage ==
    \/ \E r \in Runs, user \in Users, id \in LectureIds, hasFile \in BOOLEAN,
          fileType \in FileTypes :
            /\ r = "r2" => pc["r1"] = "done"
            /\ Request(r, user, id, hasFile, fileType, "english")
    \/ \E r \in Runs : HandlerStep(r)
    \/ \E r \in Runs : FindLectureThrows(r)

SpecOutage == InitApi /\ [][NextOutage]_vars

(***************************************************************************)
(* The functions of services/aiService.js and services/ttsService.js       *)
(* called on their own: a text and a language are given, and one function  *)
(* is applied to them.                                                     *)
(***************************************************************************)
\* The characters of the texts: a quote, a letter, a space, a newline.
TextAlphabet == {"\"", "a", " ", "\n"}

Texts == UNION {[1..n -> TextAlphabet] : n \in 0..MaxTextLen}

\* The languages of the calls: two of the tables, one of no table, a member
\* of Object.prototype, and "undefined" for a call without a language.
CallLanguages == {"english", "german", "klingon", "constructor", "undefined"}

InitText ==
    /\ db = <<>>
    /\ Quiet
    /\ input \in [text : Texts, language : CallLanguages]
    /\ output = NoOutput

\* The function fn, whose provider call did outcome, returns value.
Return(fn, outcome, value) ==
    /\ output' = [fn |-> fn, outcome |-> outcome, value |-> value]
    /\ UNCHANGED <<db, bucket, runVars, apiVars, input>>

CallCleanGeneratedContent ==
    /\ output = NoOutput
    /\ Return("cleanGeneratedContent", "", cleanGeneratedContent(input.text))

CallGenerateFallbackContent ==
    /\ output = NoOutput
    /\ Return("generateFallbackContent", "",
              generateFallbackContent(input.text, input.language))

CallGenerateLectureContent(outcome) ==
    /\ output = NoOutput
    /\ Return("generateLectureContent", outcome,
              generateLectureContent(input.text, input.language, outcome))

\* generateLectureContent(undefined, basePrompt, input.language): what it
\* returns, or the error it rejects with.
CallGenerateLectureContentOfUndefined(outcome) ==
    /\ output = NoOutput
    /\ LET result == generateLectureContentOfUndefined(input.language, outcome)
       IN  output' = [fn |-> "generateLectureContent(undefined)",
                      outcome |-> outcome, value |-> result.value,
                      rejected |-> result.rejected, error |-> result.error]
    /\ UNCHANGED <<db, bucket, runVars, apiVars, input>>

CallPrepareTextForTTS ==
    /\ output = NoOutput
    /\ Return("prepareTextForTTS", "", prepareTextForTTS(input.text, input.language))

CallGenerateSpeech(outcome) ==
    /\ output = NoOutput
    /\ Return("generateSpeech", outcome,
              generateSpeech(input.text, input.language, outcome))

NextText ==
    \/ CallCleanGeneratedContent
    \/ CallGenerateFallbackContent
    \/ \E outcome \in LlmOutcomes : CallGenerateLectureContent(outcome)
    \/ \E outcome \in LlmOutcomes : CallGenerateLectureContentOfUndefined(outcome)
    \/ CallPrepareTextForTTS
    \/ \E outcome \in SpeechOutcomes : CallGenerateSpeech(outcome)

SpecText == InitText /\ [][NextText]_vars

(***************************************************************************)
(* prepareTextForTTS of services/ttsService.js called on texts about as    *)
(* long as the 4000 characters it cuts at.                                 *)
(***************************************************************************)
\* The longest run of characters put before and after the body of a text.
MaxPadLen == 2

\* A letter, a space and the sharp s, which /[^\w\s.,!?-]/ matches.
Paddings == UNION {[1..n -> {"a", " ", "U+00DF"}] : n \in 0..MaxPadLen}

\* Texts of MaxSpeechLength - 1 letters with a padding on either side.
LongTexts ==
    {head \o Rep("a", MaxSpeechLength - 1) \o tail : head, tail \in Paddings}

InitLongText ==
    /\ db = <<>>
    /\ Quiet
    /\ input \in [text : LongTexts, language : CallLanguages]
    /\ output = NoOutput

NextLongText == CallPrepareTextForTTS

SpecLongText == InitLongText /\ [][NextLongText]_vars

(***************************************************************************)

(* generateSpeechBatch of services/ttsService.js called on its own: a list *)
(* of items and a language are given.                                      *)
(***************************************************************************)
\* Largest number of items of a batch.
MaxBatch == 2

\* The items of the batches: slide numbers in any order, with or without
\* text.
BatchItems == [slideNumber : 1..MaxBatch, content : {<<>>, <<"a">>}]

Batches == UNION {[1..n -> BatchItems] : n \in 0..MaxBatch}

\* input.text holds the first argument, texts; input.outcomes[k] is what
\* the synthesis call and the upload of the k-th item will do.
InitBatch ==
    /\ db = <<>>
    /\ Quiet
    /\ \E texts \in Batches, language \in {"english", "klingon"} :
        \E outcomes \in [1..Len(texts) -> SpeechOutcomes] :
            input = [text |-> texts, language |-> language, outcomes |-> outcomes]
    /\ output = NoOutput

CallGenerateSpeechBatch ==
    /\ output = NoOutput
    /\ Return("generateSpeechBatch", "",
              generateSpeechBatch(input.text, input.language, input.outcomes))

NextBatch == CallGenerateSpeechBatch

SpecBatch == InitBatch /\ [][NextBatch]_vars

(***************************************************************************)
(* generateLectureContentBatch of services/aiService.js called on its own: *)
(* a list of slides and a language are given.                              *)
(***************************************************************************)
\* input.text holds the first argument, slides; input.outcomes[k] is what
\* the provider will do for the k-th slide.
InitScripts ==
    /\ db = <<>>
    /\ Quiet
    /\ \E slideList \in Batches, language \in {"english", "klingon"} :
        \E outcomes \in [1..Len(slideList) -> LlmOutcomes] :
            input = [text |-> slideList, language |-> language,
                     outcomes |-> outcomes]
    /\ output = NoOutput

CallGenerateLectureContentBatch ==
    /\ output = NoOutput
    /\ Return("generateLectureContentBatch", "",
              generateLectureContentBatch(input.text, input.language,
                                          input.outcomes))

NextScripts == CallGenerateLectureContentBatch

SpecScripts == InitScripts /\ [][NextScripts]_vars

(***************************************************************************)
(* Vocabulary of the properties.                                           *)
(***************************************************************************)
\* The statuses a handler has written, in order.
statusesWritten(r) ==
    LET ws == SelectSeq(hist[r], LAMBDA u : u.status # "")
    IN  [k \in 1..Len(ws) |-> ws[k].status]

\* The processingProgress values a handler has written, in order.
progressWritten(r) ==
    LET ws == SelectSeq(hist[r], LAMBDA u : u.processingProgress # -1)
    IN  [k \in 1..Len(ws) |-> ws[k].processingProgress]

statusRank(status) ==
    CASE status = "uploading" -> 1
      [] status = "processing" -> 2
      [] status = "generating" -> 3
      [] status = "ready" -> 4
      [] OTHER -> 0

\* The handler of r has written to its lecture and has not responded.
Started(r) == hist[r] # <<>> /\ pc[r] # "done"

\* The handler of r has responded after writing status.
EndedIn(r, status) ==
    /\ pc[r] = "done"
    /\ statusesWritten(r) # <<>>
    /\ statusesWritten(r)[Len(statusesWritten(r))] = status

\* The step in which the handler of r applies its last update and responds.
FinalizeStep(r) == pc[r] = "finalize" /\ pc'[r] = "done"

CatchStep(r) == pc[r] = "catch" /\ pc'[r] = "done"

(***************************************************************************)
(* C1.  In a run, the persisted status never moves backward in the order   *)
(* uploading < processing < generating < ready, and a run that ends in     *)
(* ready has persisted processing and then generating before ready.        *)
(* The handler writes processing and then ready: generating is never       *)
(* written.                                                                *)
(***************************************************************************)
C1_StatusNeverBackwardNorSkipped ==
    \A r \in Runs :
        LET st == statusesWritten(r)
        IN  /\ \A a, b \in 1..Len(st) :
                    (a < b /\ st[a] # "error" /\ st[b] # "error")
                        => statusRank(st[a]) <= statusRank(st[b])
            /\ \A c \in 1..Len(st) :
                    st[c] = "ready"
                        => \E a, b \in 1..Len(st) :
                                /\ a < b /\ b < c
                                /\ st[a] = "processing"
                                /\ st[b] = "generating"

(***************************************************************************)
(* C2.  The processingProgress values a run writes never decrease, the     *)
(* update that sets status ready sets processingProgress to 100, and (when *)
(* uploads do not overlap) the lecture holds the value the run wrote last. *)
(***************************************************************************)
C2_ProgressMonotonic ==
    \A r \in Runs :
        LET pg == progressWritten(r)
        IN  /\ \A a, b \in 1..Len(pg) : a < b => pg[a] <= pg[b]
            /\ \A k \in 1..Len(hist[r]) :
                    hist[r][k].status = "ready"
                        => hist[r][k].processingProgress = 100
            /\ (Started(r) /\ req[r].lectureId \in DOMAIN db)
                    => db[req[r].lectureId].processingProgress = pg[Len(pg)]

\* A run over two slides has written 10, 20, 40, 60, 80 and 100.
C2_Witness ==
    \E r \in Runs :
        /\ EndedIn(r, "ready")
        /\ progressWritten(r) = <<10, 20, 40, 60, 80, 100>>

(***************************************************************************)
(* C3.  If speech synthesis fails for a slide, the run goes on and ends in *)
(* status ready.  generateSpeech throws, nothing in the slide loop catches *)
(* it, and the run ends in status error.                                   *)
(***************************************************************************)
C3_SynthesisFailureIsRecovered ==
    \A r \in Runs :
        error[r] = SpeechError
            => /\ pc[r] # "catch"
               /\ pc[r] = "done" => EndedIn(r, "ready")

(***************************************************************************)
(* C4.  Every persisted aiScript passes validateGeneratedContent or is the *)
(* fallback text.  generateLectureContent returns the cleaned completion   *)
(* without validating it.                                                  *)
(***************************************************************************)
C4_ScriptsValidOrFallback ==
    \A id \in DOMAIN db :
        \A k \in 1..Len(db[id].slides) :
            LET slide == db[id].slides[k]
                text == scriptText(slide.aiScript)
            IN  slide.aiScript # NoScript
                    => \/ validateGeneratedContent(text)
                       \/ text = generateFallbackContent(contentText(slide.content),
                                                         slide.aiScript.language)

(***************************************************************************)
(* C5.  When a step of a run throws, the handler goes to its catch block   *)
(* with a non-empty message and without writing; the catch block sets      *)
(* status error, stores that message as errorMessage and leaves            *)
(* processingProgress as it was.                                           *)
(***************************************************************************)
C5_ErrorKeepsProgress ==
    [][\A r \in Runs :
          /\ error'[r] # error[r]
                => pc'[r] = "catch" /\ error'[r] # "" /\ db' = db
          /\ (CatchStep(r) /\ req[r].lectureId \in DOMAIN db)
                => LET before == db[req[r].lectureId]
                       after == db'[req[r].lectureId]
                   IN  /\ after.status = "error"
                       /\ after.errorMessage = error[r]
                       /\ after.errorMessage # ""
                       /\ after.processingProgress = before.processingProgress
                       /\ res'[r] = 500]_vars

\* Synthesis failed on the second of two slides: the run ended in error with
\* processingProgress left at 60.
C5_Witness ==
    \E r \in Runs :
        /\ EndedIn(r, "error")
        /\ error[r] = SpeechError
        /\ progressWritten(r) = <<10, 20, 40, 60>>
        /\ db[req[r].lectureId].status = "error"
        /\ db[req[r].lectureId].errorMessage = SpeechError
        /\ db[req[r].lectureId].processingProgress = 60

(***************************************************************************)
(* C6.  Two runs for the same lecture never both write to it: while one is *)
(* between its first write and its last, no other run for that lecture     *)
(* writes.  The handler takes no lock and checks no status.                *)
(***************************************************************************)
C6_NoOverlappingWriters ==
    \A r1, r2 \in Runs :
        (r1 # r2 /\ req[r1].lectureId = req[r2].lectureId)
            => ~(Started(r1) /\ Started(r2))

(***************************************************************************)
(* C7.  No run reaches status ready with an empty slide list.  processPDF  *)
(* returns an empty list when every block is too short and the handler     *)
(* finalizes it.                                                           *)
(***************************************************************************)
C7_NoReadyWithoutSlides ==
    \A id \in DOMAIN db :
        db[id].status = "ready" => db[id].slides # <<>>

(***************************************************************************)
(* C8.  If the buffer does not parse as its declared format, the run       *)
(* writes no slides and ends in status error.  processPPTX never reads the *)
(* buffer.                                                                 *)
(***************************************************************************)
C8_UnparseableFileEndsInError ==
    \A r \in Runs :
        pc[r] \in {"generate", "speech", "setProgress", "finalize"}
            => file[r].parses


(***************************************************************************)
(* C9.  If the language-model call throws for a slide, that slide's script *)
(* is the fallback text: the greeting of the language, then the first 200  *)
(* characters of the slide's text between the fixed sentences.  The other  *)
(* slides keep the cleaned completion, and every script is the one made    *)
(* from its own slide's text.  The run goes on to ready (C9_Witness).      *)
(***************************************************************************)
IsFallbackFor(text, content, language) ==
    LET greeting == IF language \in DOMAIN languageGreetings
                    THEN languageGreetings[language]
                    ELSE languageGreetings.english
        excerpt == SubSeq(content, 1, Min(200, Len(content)))
        at == Len(greeting) + Len(FallbackIntro)
    IN  /\ Len(text) = at + Len(excerpt) + Len(FallbackOutro)
        /\ SubSeq(text, 1, Len(greeting)) = greeting
        /\ SubSeq(text, at + 1, at + Len(excerpt)) = excerpt

ScriptIsOf(script, content) ==
    /\ script.content = content
    /\ script.outcome = "throw"
            => IsFallbackFor(scriptText(script), contentText(content), script.language)
    /\ script.outcome \in Completions
            => scriptText(script) = cleanGeneratedContent(completionText(script.outcome))

C9_FallbackOnProviderFailure ==
    /\ \A id \in DOMAIN db :
            \A k \in 1..Len(db[id].slides) :
                db[id].slides[k].aiScript # NoScript
                    => ScriptIsOf(db[id].slides[k].aiScript, db[id].slides[k].content)
    /\ \A r \in Runs :
            \A k \in 1..Len(processedSlides[r]) :
                /\ ScriptIsOf(processedSlides[r][k].aiScript, slides[r][k].content)
                /\ processedSlides[r][k].aiScript.language = req[r].language

\* A ready lecture of two slides: the provider threw for the first, whose
\* text is longer than 200 characters, and answered for the second.
C9_Witness ==
    \E id \in DOMAIN db :
        /\ db[id].status = "ready"
        /\ Len(db[id].slides) = 2
        /\ db[id].slides[1].aiScript.outcome = "throw"
        /\ Len(contentText(db[id].slides[1].content)) > 200
        /\ db[id].slides[2].aiScript.outcome = "lecture"

(***************************************************************************)
(* C10.  If extraction yields N >= 1 slides, every script call returns a   *)
(* completion with visible text and every synthesis call returns audio,    *)
(* the handler's last update sets status ready and persists exactly the N  *)
(* slides, in extraction order and numbered 1..N, each with a non-empty    *)
(* script and a non-empty audio URL.  (A completion of white space and     *)
(* quotes alone is cleaned to the empty script, which generateSpeech       *)
(* passes to the synthesis provider as it is.)                             *)
(***************************************************************************)
\* The completion has a character that is neither white space nor a quote.
HasVisibleText(text) ==
    \E k \in 1..Len(text) : ~IsSpace(text[k]) /\ ~IsQuote(text[k])

NoCallFailed(r) ==
    \A k \in 1..Len(processedSlides[r]) :
        /\ processedSlides[r][k].aiScript.outcome \in Completions
        /\ HasVisibleText(completionText(processedSlides[r][k].aiScript.outcome))

C11_DeleteReleasesObjects ==
    (/\ answer.op \in {"deleteLecture", "deleteUpload"}
     /\ answer.code = 200
     /\ \A r \in Runs : pc[r] \in {"idle", "done"})
        => ~\E o \in bucket : o.lecture = answer.lectureId

(***************************************************************************)
(* C12.  A run that has been accepted (it has a file, its lecture exists   *)
(* and the requester owns it) eventually writes status ready or status     *)
(* error and responds, when every call it awaits returns or throws.        *)
(***************************************************************************)
C12_AcceptedRunEnds ==
    \A r \in Runs :
        (pc[r] = "setProcessing") ~> (EndedIn(r, "ready") \/ EndedIn(r, "error"))

\* The first upload ended in error, the second, to the same lecture, in
\* ready.
C12_Witness ==
    /\ EndedIn("r1", "error")
    /\ EndedIn("r2", "ready")
    /\ req["r1"].lectureId = req["r2"].lectureId
    /\ db[req["r2"].lectureId].status = "ready"

(***************************************************************************)
(* C13.  Once a run has written status ready or status error, it writes    *)
(* nothing more to the lecture: the write is the handler's last step       *)
(* before its response.                                                    *)
(***************************************************************************)
C13_NoWriteAfterTerminal ==
    [][\A r \in Runs :
          (\E k \in 1..Len(hist[r]) : hist[r][k].status \in {"ready", "error"})
            => /\ hist'[r] = hist[r]
               /\ pc[r] = "done"
               /\ pc'[r] = "done"]_vars

\* The first upload ended in ready, and the second, to the same lecture,
\* has since written and ended in error.
C13_Witness ==
    /\ EndedIn("r1", "ready")
    /\ EndedIn("r2", "error")
    /\ req["r1"].lectureId = req["r2"].lectureId
    /\ statusesWritten("r1") = <<"processing", "ready">>

(***************************************************************************)
(* C14.  An upload to a lecture whose previous run ended in ready or error *)
(* writes status uploading first, and by the time it has responded it has  *)
(* written the lecture's slides (the updates of progress 40 and 100 are    *)
(* the ones that carry slides).  The handler's first write sets status     *)
(* processing, and a run that throws before extraction has finished        *)
(* leaves the slides of the previous run in place.                         *)
(***************************************************************************)
C14_ReuploadStartsFresh ==
    (/\ EndedIn("r1", "ready") \/ EndedIn("r1", "error")
     /\ req["r2"].lectureId = req["r1"].lectureId
     /\ hist["r2"] # <<>>)
        => /\ statusesWritten("r2")[1] = "uploading"
           /\ pc["r2"] = "done"
                => \E k \in 1..Len(hist["r2"]) :
                        hist["r2"][k].processingProgress \in {40, 100}

(***************************************************************************)
(* C15.  The slides the pipeline has written to a lecture are numbered by  *)
(* their position: the slide at position k (from 1) has slideNumber k, so  *)
(* the numbers are 1..N without gap or duplicate.  This holds of the       *)
(* skeleton write and of the final write, also when the PDF had blocks     *)
(* that were discarded.                                                    *)
(***************************************************************************)
C15_SlidesNumberedByPosition ==
    /\ \A id \in DOMAIN db :
            \A k \in 1..Len(db[id].slides) : db[id].slides[k].slideNumber = k
    /\ \A r \in Runs :
            \A k \in 1..Len(processedSlides[r]) :
                processedSlides[r][k].slideNumber = k

\* A run over a PDF whose first block was discarded has written the
\* skeleton (progress 40) and the final slides (progress 100): the one
\* slide, cut from the second block, is number 1.
C15_Witness ==
    \E r \in Runs :
        /\ EndedIn(r, "ready")
        /\ progressWritten(r) = <<10, 20, 40, 80, 100>>
        /\ Len(db[req[r].lectureId].slides) = 1
        /\ db[req[r].lectureId].slides[1].slideNumber = 1
        /\ db[req[r].lectureId].slides[1].imageUrl.slideNumber = 2

(***************************************************************************)
(* C16.  A lecture's errorMessage is non-empty only while its status is    *)
(* error.  No update of a later run clears errorMessage: after a failed    *)
(* run, the next upload sets status processing (and later ready) with the  *)
(* old message still stored.                                               *)
(***************************************************************************)
C16_ErrorMessageOnlyInError ==
    \A id \in DOMAIN db :
        db[id].errorMessage # "" => db[id].status = "error"

(***************************************************************************)
(* C17.  While a run is between its first write and its response, every    *)
(* step that changes the status, processingProgress, slides or             *)
(* totalDuration of its lecture is a write of that run.  PATCH /:id/status *)
(* and PATCH /:id/slides check the owner and nothing else, so the owner's  *)
(* request changes these fields under a running upload.                    *)
(***************************************************************************)
PipelineFields(lecture) ==
    <<lecture.status, lecture.processingProgress, lecture.slides,
      lecture.totalDuration>>

C17_OnlyTheRunWrites ==
    [][\A r \in Runs :
          (/\ Started(r)
           /\ req[r].lectureId \in DOMAIN db
           /\ req[r].lectureId \in DOMAIN db'
           /\ PipelineFields(db'[req[r].lectureId])
                    # PipelineFields(db[req[r].lectureId]))
            => hist'[r] # hist[r]]_vars

(***************************************************************************)
(* C18.  cleanGeneratedContent is idempotent: cleaning what it returned    *)
(* returns the same text.  The pattern removes one quote at each end, so   *)
(* a text with two quotes at an end, or with a quote behind leading white  *)
(* space, comes back with a quote at that end, which a second call         *)
(* removes.                                                                *)
(***************************************************************************)
C18_CleanIsIdempotent ==
    output.fn = "cleanGeneratedContent"
        => cleanGeneratedContent(output.value) = output.value

(***************************************************************************)
(* C19.  For a language that is no key of LANGUAGE_VOICES, or no language  *)
(* at all, generateSpeech calls the provider with the voice alloy, and it  *)
(* returns the audio when the provider and the upload work.  The table is  *)
(* an object literal: for a language that names a member of                *)
(* Object.prototype the lookup returns that member, not undefined, and the *)
(* default is not used.                                                    *)
(***************************************************************************)
C19_UnknownLanguageUsesAlloy ==
    (output.fn = "generateSpeech" /\ input.language \notin DOMAIN LANGUAGE_VOICES)
        => /\ output.value.voice = "alloy"
           /\ output.outcome = "ok" => output.value.ok

(***************************************************************************)
(* C20.  generateLectureContent called with an empty slide text and        *)
(* language english returns the fallback script, which begins with "Hello  *)
(* everyone,"; and for a language that is no key of languageGreetings the  *)
(* fallback script begins with the English greeting.  The empty text is    *)
(* sent to the provider like any other, and the fallback is returned only  *)
(* when that call throws; the greeting of a language that names a member   *)
(* of Object.prototype is that member.                                     *)
(***************************************************************************)
StartsWith(s, prefix) ==
    Len(s) >= Len(prefix) /\ SubSeq(s, 1, Len(prefix)) = prefix

C20_EmptyTextGivesFallback ==
    /\ (/\ output.fn = "generateLectureContent"
        /\ input.text = <<>>
        /\ input.language = "english")
            => /\ output.value = generateFallbackContent(<<>>, "english")
               /\ StartsWith(output.value, languageGreetings.english)
    /\ (/\ \/ output.fn = "generateFallbackContent"
           \/ output.fn = "generateLectureContent" /\ output.outcome = "throw"
        /\ input.language \notin DOMAIN languageGreetings)
            => StartsWith(output.value, languageGreetings.english)

(***************************************************************************)
(* C21.  Within a run the external calls come one after the other:         *)
(* extraction first, then for each slide k in turn the script call for k   *)
(* and then the synthesis call for k.  Extraction is called while no       *)
(* script has been asked for; the script call for slide k is made when     *)
(* exactly the slides 1..k-1 have been synthesized; the synthesis call for *)
(* slide k is made with the script that was generated for slide k, when    *)
(* exactly the slides 1..k-1 have been synthesized.  Each call is awaited, *)
(* so a handler is at one call at a time (its pc).                         *)
(***************************************************************************)
\* The steps in which the handler of r gets the result of an external call.
ExtractionCall(r) == pc[r] = "process" /\ pc'[r] # "process"

ScriptCall(r) == pc[r] = "generate" /\ pc'[r] # "generate"

SynthesisCall(r) == pc[r] = "speech" /\ pc'[r] # "speech"

C21_CallsInOrder ==
    [][\A r \in Runs :
        /\ ExtractionCall(r)
                => /\ slides[r] = <<>>
                   /\ processedSlides[r] = <<>>
                   /\ aiScript[r] = NoScript
        /\ ScriptCall(r)
                => /\ i[r] + 1 \in 1..Len(slides[r])
                   /\ Len(processedSlides[r]) = i[r]
                   /\ aiScript'[r].content = slides[r][i[r] + 1].content
                   /\ processedSlides'[r] = processedSlides[r]
        /\ SynthesisCall(r)
                => /\ i[r] + 1 \in 1..Len(slides[r])
                   /\ Len(processedSlides[r]) = i[r]
                   /\ aiScript[r].outcome # "none"
                   /\ aiScript[r].content = slides[r][i[r] + 1].content
                   /\ \A k \in 1..Len(processedSlides'[r]) :
                        processedSlides'[r][k].slideNumber = k]_vars

\* The synthesis of the second slide has returned: both slides of the run
\* have their script and their audio, and the second's progress is due.
C21_Witness ==
    \E r \in Runs :
        /\ pc[r] = "setProgress"
        /\ i[r] = 1
        /\ Len(processedSlides[r]) = 2

(***************************************************************************)
(* C22.  When a run is about to start slide k+1 (its script call is next), *)
(* the persisted lecture holds, for every slide 1..k the run has           *)
(* processed, that slide's script and audio reference.                     *)
(***************************************************************************)
C22_SlidePersistedBeforeNext ==
    \A r \in Runs :
        (pc[r] = "generate" /\ i[r] >= 1 /\ req[r].lectureId \in DOMAIN db)
            => LET persisted == db[req[r].lectureId].slides
               IN  \A k \in 1..i[r] :
                        /\ k <= Len(persisted)
                        /\ persisted[k].aiScript = processedSlides[r][k].aiScript
                        /\ persisted[k].audioUrl = processedSlides[r][k].audioUrl

(***************************************************************************)
(* C23.  The update with which a run sets status ready writes, in the same *)
(* step, the final slide list, processingProgress 100, slideCount and      *)
(* totalDuration: the step leaves the lecture ready, with the run's        *)
(* processed slides as its slides, processingProgress 100, slideCount      *)
(* equal to the number of persisted slides and totalDuration equal to the  *)
(* sum of their durations.                                                 *)
(***************************************************************************)
ReadyIsComplete(lecture) ==
    /\ lecture.status = "ready"
    /\ lecture.processingProgress = 100
    /\ lecture.slideCount = Len(lecture.slides)
    /\ lecture.totalDuration = sumDuration(lecture.slides)

C23_ReadyWrittenWhole ==
    [][\A r \in Runs :
        (FinalizeStep(r) /\ req[r].lectureId \in DOMAIN db)
            => /\ ReadyIsComplete(db'[req[r].lectureId])
               /\ db'[req[r].lectureId].slides =
                        [k \in 1..Len(processedSlides[r]) |->
                            slideSchema(processedSlides[r][k])]
               /\ hist'[r][Len(hist'[r])] =
                        [status |-> "ready", processingProgress |-> 100]]_vars

\* A run has ended in ready with two slides persisted and counted.
C23_Witness ==
    \E r \in Runs :
        /\ EndedIn(r, "ready")
        /\ req[r].lectureId \in DOMAIN db
        /\ db[req[r].lectureId].status = "ready"
        /\ db[req[r].lectureId].slideCount = 2
        /\ Len(db[req[r].lectureId].slides) = 2

(***************************************************************************)
(* C24.  PUT /lectures/:id never changes a lecture that is ready: the step *)
(* in which the route answers its owner's request for a lecture that is    *)
(* ready at that moment leaves the lecture as it is and answers 400, also  *)
(* when the lecture became ready after the route had read it.              *)
(***************************************************************************)
\* The step in which the route in flight answers.
Answers(op) == call.op = op /\ call' = NoCall

C24_PutLeavesReadyAlone ==
    [][(/\ Answers("putLecture")
        /\ call.lectureId \in DOMAIN db
        /\ db[call.lectureId].owner = call.user
        /\ db[call.lectureId].status = "ready")
            => /\ db' = db
               /\ answer'.code = 400]_vars

(***************************************************************************)
(* C25.  A lecture deleted while its run is in progress stays deleted: no  *)
(* step of a handler adds a document to the store.                         *)
(***************************************************************************)
C25_DeletedStaysAbsent ==
    [][\A id \in LectureIds :
            (id \notin DOMAIN db /\ id \in DOMAIN db')
                => \A r \in Runs : pc'[r] = pc[r] /\ hist'[r] = hist[r]]_vars

\* The lecture was deleted while its run was in progress: the run has
\* processed two slides and its final update is due, the last request to a
\* delete route was answered 200, and the lecture is not in the store.
C25_Witness ==
    \E r \in Runs :
        /\ pc[r] = "finalize"
        /\ Len(processedSlides[r]) = 2
        /\ req[r].lectureId \notin DOMAIN db
        /\ answer.op \in {"deleteLecture", "deleteUpload"}
        /\ answer.code = 200

(***************************************************************************)
(* C26.  An upload request of a user who is not the owner of the lecture   *)
(* it names changes no field of that lecture: no step of its handler       *)
(* changes the store.  The catch block writes status error and the error   *)
(* message to the lecture of req.params.lectureId without having read its  *)
(* owner, so a request whose findById rejects changes a lecture of         *)
(* somebody else.                                                          *)
(***************************************************************************)
C26_StrangerChangesNothing ==
    [][\A r \in Runs :
          (/\ pc'[r] # pc[r]
           /\ req[r].lectureId \in DOMAIN db
           /\ db[req[r].lectureId].owner # req[r].user)
            => db' = db]_vars

(***************************************************************************)
(* C27.  A run persists status processing with processingProgress 10 only  *)
(* once its source file is stored: whenever a run has written progress 10, *)
(* the bucket holds the file of its lecture under lectures/, so a run      *)
(* whose upload fails never shows progress 10.  The handler writes         *)
(* progress 10 first and uploads the file after it.                        *)
(***************************************************************************)
C27_StoredBeforeProgressTen ==
    \A r \in Runs :
        (\E k \in 1..Len(hist[r]) :
            hist[r][k] = [status |-> "processing", processingProgress |-> 10])
            => S3Object("lectures", req[r].lectureId) \in bucket

(***************************************************************************)
(* C28.  Extraction is called once in a run: it is called after the writes *)
(* of progress 10 and 20 and before any other write, the handler comes to  *)
(* it from the write of progress 20 alone, and it comes to the write of    *)
(* the skeletons from a successful extraction alone.  That write persists, *)
(* for each extracted slide in order, its number, image and content with   *)
(* an empty script, empty audio and duration 0, together with              *)
(* processingProgress 40; every script call of the run is made after it.   *)
(***************************************************************************)
\* The slide of the schema that holds the text and image extraction gave
\* the k-th slide, and nothing else.
Skeleton(k, slide) ==
    [slideNumber |-> k, imageUrl |-> slide.imageUrl, content |-> slide.content,
     aiScript |-> NoScript, audioUrl |-> "", duration |-> 0]

C28_ExtractOnceThenSkeletons ==
    [][\A r \in Runs :
        /\ ExtractionCall(r)
                => /\ progressWritten(r) = <<10, 20>>
                   /\ statusesWritten(r) = <<"processing">>
                   /\ pc'[r] \in {"setSlides", "catch"}
        /\ (pc'[r] = "process" /\ pc[r] # "process") => pc[r] = "setFileUrl"
        /\ (pc'[r] = "setSlides" /\ pc[r] # "setSlides") => ExtractionCall(r)
        /\ (pc[r] = "setSlides" /\ pc'[r] # "setSlides"
                /\ req[r].lectureId \in DOMAIN db)
                => /\ db'[req[r].lectureId].slides =
                        [k \in 1..Len(slides[r]) |-> Skeleton(k, slides[r][k])]
                   /\ db'[req[r].lectureId].processingProgress = 40
                   /\ progressWritten(r) = <<10, 20>>
                   /\ hist'[r] = Append(hist[r],
                                        [status |-> "", processingProgress |-> 40])
        /\ ScriptCall(r)
                => /\ Len(progressWritten(r)) >= 3
                   /\ progressWritten(r)[3] = 40]_vars

\* The skeletons of two slides are persisted with progress 40 and the
\* script call for the first slide is due.
C28_Witness ==
    \E r \in Runs :
        /\ pc[r] = "generate"
        /\ i[r] = 0
        /\ Len(slides[r]) = 2
        /\ req[r].lectureId \in DOMAIN db
        /\ db[req[r].lectureId].processingProgress = 40
        /\ db[req[r].lectureId].slides =
                [k \in 1..2 |-> Skeleton(k, slides[r][k])]

(***************************************************************************)
(* C29.  A persisted slide that has audio and a non-empty script has a     *)
(* duration greater than 0, and a ready lecture with such a slide has a    *)
(* totalDuration greater than 0.  The handler pushes every slide with the  *)
(* literal duration 0 and sums those.                                      *)
(***************************************************************************)
C29_SynthesizedSlidesHaveDuration ==
    \A id \in DOMAIN db :
        \A k \in 1..Len(db[id].slides) :
            (/\ db[id].slides[k].audioUrl # ""
             /\ scriptText(db[id].slides[k].aiScript) # <<>>)
                => /\ db[id].slides[k].duration > 0
                   /\ db[id].status = "ready" => db[id].totalDuration > 0

(***************************************************************************)
(* C30.  generateSpeechBatch returns one result for each item of its       *)
(* input, in the input's order, with the item's slideNumber and content;   *)
(* the result of an item whose synthesis or upload throws has audioUrl     *)
(* null and the error's message, and the result of every other item,       *)
(* before or after it, has the URL of its audio and no error.              *)
(***************************************************************************)
C30_BatchKeepsEveryItem ==
    output.fn = "generateSpeechBatch"
        => /\ Len(output.value) = Len(input.text)
           /\ \A k \in 1..Len(input.text) :
                /\ output.value[k].slideNumber = input.text[k].slideNumber
                /\ output.value[k].content = input.text[k].content
                /\ IF input.outcomes[k] = "ok"
                   THEN /\ output.value[k].audioUrl = AudioLocation
                        /\ "error" \notin DOMAIN output.value[k]
                   ELSE /\ output.value[k].audioUrl = Null
                        /\ "error" \in DOMAIN output.value[k]
                        /\ output.value[k].error = SpeechError

\* The provider threw for the first of two items, slide 2, and the second,
\* slide 1, has its audio.
C30_Witness ==
    /\ output.fn = "generateSpeechBatch"
    /\ Len(output.value) = 2
    /\ input.outcomes[1] = "providerThrows"
    /\ output.value[1].slideNumber = 2
    /\ output.value[1].audioUrl = Null
    /\ output.value[2].slideNumber = 1
    /\ output.value[2].audioUrl = AudioLocation

(***************************************************************************)
(* C31.  In a call of generateSpeechBatch a delay comes between every two  *)
(* consecutive synthesis calls: no synthesis call is followed at once by   *)
(* another.  The delay is awaited in the try block, after the push of a    *)
(* successful result, so the call after a failed one follows it at once.   *)
(***************************************************************************)
C31_DelayBetweenSyntheses ==
    output.fn = "generateSpeechBatch"
        => LET events == speechBatchEvents(input.text, input.language,
                                           input.outcomes, 0, <<>>)
           IN  \A j \in 1..(Len(events) - 1) :
                    events[j] = "synthesis" => events[j + 1] = "delay"

(***************************************************************************)
(* C32.  generateLectureContentBatch calls generateLectureContent for its  *)
(* slides one at a time in input order, with a delay between every two    *)
(* consecutive calls, and returns one result per slide: the result at      *)
(* position k (1-based) has slideNumber k, the content of the k-th slide   *)
(* and the script generateLectureContent gave for it, the fallback when    *)
(* the provider threw.                                                     *)
(***************************************************************************)
C32_ScriptBatchKeepsEverySlide ==
    output.fn = "generateLectureContentBatch"
        => LET n == Len(input.text)
               events == contentBatchLoop(input.text, input.language,
                                          input.outcomes, 0, <<>>, <<>>).events
               calls == SelectSeq(events, LAMBDA e : e.kind = "generation")
           IN  /\ Len(output.value) = n
               /\ \A k \in 1..n :
                    /\ output.value[k].slideNumber = k
                    /\ output.value[k].content = input.text[k].content
                    /\ input.outcomes[k] = "throw"
                        => output.value[k].script =
                                generateFallbackContent(input.text[k].content,
                                                        input.language)
               /\ calls = [k \in 1..n |-> [kind |-> "generation", slide |-> k]]
               /\ \A j \in 1..(Len(events) - 1) :
                    events[j].kind = "generation" => events[j + 1].kind = "delay"

\* Two slides that carry the numbers 2 and 1: the provider threw for the
\* first and answered for the second, and the results are numbered 1 and 2.
C32_Witness ==
    /\ output.fn = "generateLectureContentBatch"
    /\ Len(output.value) = 2
    /\ input.text[1].slideNumber = 2
    /\ input.text[2].slideNumber = 1
    /\ input.outcomes = <<"throw", "lecture">>
    /\ output.value[1].slideNumber = 1
    /\ output.value[1].script # <<>>
    /\ output.value[2].slideNumber = 2

(***************************************************************************)
(* C33.  generateLectureContent never throws or rejects: when the provider *)
(* call fails it returns the script of generateFallbackContent, for every  *)
(* slide text, empty and missing ones included, and every language.        *)
(***************************************************************************)
C33_GenerationNeverRejects ==
    /\ output.fn = "generateLectureContent" /\ output.outcome = "throw"
        => output.value = generateFallbackContent(input.text, input.language)
    /\ output.fn = "generateLectureContent(undefined)" => ~output.rejected

\* The slide counts for which the progress arithmetic is checked on its own.
MaxSlideCount == 9

\* v is x rounded as Math.round does, to the nearest integer and up from a
\* half, where x = 40 + 40 * k / n:  v <= x + 1/2 < v + 1.
IsRoundedProgress(v, k, n) ==
    /\ 2 * n * v <= 80 * n + 80 * k + n
    /\ 80 * n + 80 * k + n < 2 * n * (v + 1)

\* What C34 says of v, the value written after k of n slides.
IsSlideProgress(v, k, n) ==
    /\ IsRoundedProgress(v, k, n)
    /\ v \in 40..80
    /\ k = n => v = 80

\* What C34 says of the values the loop computes for up to MaxSlideCount
\* slides.
ProgressArithmetic ==
    \A n \in 1..MaxSlideCount :
        /\ \A k \in 1..n : IsSlideProgress(slideProgress(k, n), k, n)
        /\ \A k \in 2..n : slideProgress(k - 1, n) <= slideProgress(k, n)

(***************************************************************************)
(* C34.  Every processingProgress value a run writes is an integer in      *)
(* 0..100.  After k of n slides (1 <= k <= n) the value written is         *)
(* round(40 + 40 * k / n): it lies in 40..80, does not decrease with k and *)
(* is 80 for k = n.  The first conjuncts are about the writes of the runs, *)
(* whose slide writes follow those of 10, 20 and 40; the last is about the *)
(* arithmetic of the loop for up to MaxSlideCount slides.                  *)
(***************************************************************************)
C34_ProgressIsRounded ==
    /\ \A r \in Runs :
        LET pg == progressWritten(r)
            n  == Len(slides[r])
        IN  /\ \A j \in 1..Len(pg) : pg[j] \in 0..100
            /\ pc[r] \in {"generate", "speech", "setProgress", "finalize"}
                => /\ Len(pg) = 3 + i[r]
                   /\ \A k \in 1..i[r] : IsSlideProgress(pg[3 + k], k, n)
                   /\ \A k \in 2..i[r] : pg[3 + k - 1] <= pg[3 + k]
    /\ ProgressArithmetic

\* A run over two slides has written 60 after the first and 80 after the
\* second, and is about to write 100.
C34_Witness ==
    \E r \in Runs :
        /\ pc[r] = "finalize"
        /\ Len(slides[r]) = 2
        /\ i[r] = 2
        /\ progressWritten(r) = <<10, 20, 40, 60, 80>>

(***************************************************************************)
(* C35.  The language a run passes to script generation and to speech      *)
(* synthesis is the language stored on its lecture when it was created.    *)
(* The handler passes the language field of the upload's body and never    *)
(* reads lecture.language.                                                 *)
(***************************************************************************)
C35_LanguageIsTheLecturesOwn ==
    [][\A r \in Runs :
        (req[r].lectureId \in DOMAIN db)
            => /\ ScriptCall(r)
                    => aiScript'[r].language = db[req[r].lectureId].language
               /\ SynthesisCall(r)
                    => req[r].language = db[req[r].lectureId].language]_vars

\* What the extraction of the file the handler of r reads in this step
\* gives when every image is rendered and stored.
RenderedExtraction(r) ==
    IF req[r].fileType = "pptx" THEN processPPTX(file'[r], TRUE)
    ELSE processPDF(file'[r], TRUE)

\* The placeholder URL for the slide number of url.
PlaceholderFor(url) == [host |-> "placeholder", slideNumber |-> url.slideNumber]

(***************************************************************************)
(* C36.  generateSlideImage never fails: when the rendering or the upload  *)
(* of a slide image throws it returns a placeholder URL labelled with the  *)
(* slide number, and the extraction goes on with the remaining blocks.  An *)
(* extraction gives the slides it gives when every image is rendered, each *)
(* with its image's URL or the placeholder of the same slide number.       *)
(***************************************************************************)
C36_PlaceholderInsteadOfFailure ==
    [][\A r \in Runs :
        (ExtractionCall(r) /\ RenderedExtraction(r).ok)
            => LET whole == RenderedExtraction(r).slides
               IN  /\ pc'[r] = "setSlides"
                   /\ Len(slides'[r]) = Len(whole)
                   /\ \A k \in 1..Len(whole) :
                        /\ slides'[r][k].content = whole[k].content
                        /\ slides'[r][k].imageUrl
                                \in {whole[k].imageUrl,
                                     PlaceholderFor(whole[k].imageUrl)}]_vars

\* A PDF of two blocks none of whose images could be rendered has given two
\* slides, with the placeholders of slide 1 and slide 2.
C36_Witness ==
    \E r \in Runs :
        /\ pc[r] = "setSlides"
        /\ req[r].fileType = "pdf"
        /\ Len(slides[r]) = 2
        /\ slides[r][1].imageUrl = [host |-> "placeholder", slideNumber |-> 1]
        /\ slides[r][2].imageUrl = [host |-> "placeholder", slideNumber |-> 2]

(***************************************************************************)
(* C37.  For every slide produced from a PDF the slide number under which  *)
(* its image is rendered and named equals the slideNumber the pipeline     *)
(* persists for it, also when earlier blocks were discarded as too short.  *)
(* The image is numbered by the block's position among the non-empty       *)
(* blocks, the slide by its position among the blocks that were kept.      *)
(***************************************************************************)
C37_ImageNumberedAsSlide ==
    \A id \in DOMAIN db :
        \A k \in 1..Len(db[id].slides) :
            db[id].slides[k].imageUrl.slideNumber = db[id].slides[k].slideNumber

(***************************************************************************)
(* C38.  For every input text, the text prepareTextForTTS returns has at   *)
(* most MaxSpeechLength (4000) characters, the limit validateTTSParameters *)
(* enforces.  A cleaned text of more than 4000 characters is cut to its    *)
(* first 4000 and '...' is appended: 4003 characters.                      *)
(***************************************************************************)
C38_PreparedTextWithinLimit ==
    output.fn = "prepareTextForTTS"
        => /\ Len(output.value) <= MaxSpeechLength
           /\ \A k \in 1..Len(validateTTSParameters(output.value, input.language).errors) :
                validateTTSParameters(output.value, input.language).errors[k]
                    # TextTooLong

\* How often the character c occurs in s.
Occurrences(s, c) == Len(SelectSeq(s, LAMBDA x : x = c))

(***************************************************************************)
(* C39.  For language german every sharp s (U+00DF) of the input text      *)
(* appears as ss in the text prepareTextForTTS returns.  The texts have no *)
(* s of their own; a text that was not cut has two for each sharp s of the *)
(* input.  The cleaning removes every character /\w/ does not match, the   *)
(* sharp s among them, before the substitution is made.                    *)
(***************************************************************************)
C39_SharpSBecomesSs ==
    (/\ output.fn = "prepareTextForTTS"
     /\ input.language = "german"
     /\ Len(output.value) <= MaxSpeechLength)
        => Occurrences(output.value, "s")
                = 2 * Occurrences(input.text, "U+00DF")

====
